---------------------------- MODULE Spec2Model ----------------------------
(***************************************************************************)
(* A model of the user-record HTTP server of src/src/main.rs: the accept   *)
(* loop, handle_client's prefix dispatch, the five handlers with their     *)
(* SQL statements, and the two text helpers get_id and                     *)
(* get_user_request_body.  Request text is a sequence of one-character     *)
(* strings, so that starts_with, split, split_whitespace, parse::<i32>     *)
(* and the JSON reader are computed on the text as the code computes them. *)
(***************************************************************************)
EXTENDS Integers, Sequences, FiniteSets, TLC

(***************************************************************************)
(* Text primitives of the Rust standard library used by the code.          *)
(***************************************************************************)

\* str::starts_with
StartsWith(s, p) == Len(s) >= Len(p) /\ SubSeq(s, 1, Len(p)) = p

\* The text from position i to the end.
From(s, i) == SubSeq(s, i, Len(s))

\* Position of the first occurrence of pattern d in s, 0 when there is none.
RECURSIVE FindFrom(_, _, _)
FindFrom(s, d, i) ==
    IF i + Len(d) - 1 > Len(s) THEN 0
    ELSE IF SubSeq(s, i, i + Len(d) - 1) = d THEN i
    ELSE FindFrom(s, d, i + 1)

Find(s, d) == FindFrom(s, d, 1)

\* str::split(pattern): the parts between non-overlapping matches, left to
\* right; a text without a match is its own single part.
RECURSIVE Split(_, _)
Split(s, d) ==
    LET i == Find(s, d)
    IN  IF i = 0 THEN <<s>>
        ELSE <<SubSeq(s, 1, i - 1)>> \o Split(From(s, i + Len(d)), d)

\* Iterator::nth(n).unwrap_or_default() on the parts of a split (n from 0).
NthOrDefault(parts, n) == IF n + 1 <= Len(parts) THEN parts[n + 1] ELSE <<>>

\* Iterator::last().unwrap_or_default(): split always yields a part.
LastOrDefault(parts) == IF Len(parts) = 0 THEN <<>> ELSE parts[Len(parts)]

\* char::is_whitespace on the characters that occur in requests.
WhiteSpace == {" ", "\t", "\n", "\r", "\f"}

RECURSIVE SkipWhile(_, _)
SkipWhile(s, set) ==
    IF s # <<>> /\ Head(s) \in set THEN SkipWhile(Tail(s), set) ELSE s

RECURSIVE TakeUntil(_, _)
TakeUntil(s, set) ==
    IF s = <<>> \/ Head(s) \in set THEN <<>>
    ELSE <<Head(s)>> \o TakeUntil(Tail(s), set)

\* str::split_whitespace().next().unwrap_or_default()
FirstWord(s) == TakeUntil(SkipWhile(s, WhiteSpace), WhiteSpace)

Digits == {"0", "1", "2", "3", "4", "5", "6", "7", "8", "9"}

DigitVal(c) ==
    CASE c = "0" -> 0 [] c = "1" -> 1 [] c = "2" -> 2 [] c = "3" -> 3
      [] c = "4" -> 4 [] c = "5" -> 5 [] c = "6" -> 6 [] c = "7" -> 7
      [] c = "8" -> 8 [] c = "9" -> 9

I32Max == 2147483647
I32Min == -2147483647 - 1

Err == [ok |-> FALSE]
Ok(v) == [ok |-> TRUE, val |-> v]

\* Accumulation of the digits as i32::from_str does it: towards the sign,
\* failing on a non-digit and on leaving the 32-bit range.
RECURSIVE AccumI32(_, _, _)
AccumI32(ds, acc, neg) ==
    IF ds = <<>> THEN Ok(acc)
    ELSE IF Head(ds) \notin Digits THEN Err
    ELSE LET d == DigitVal(Head(ds))
         IN  IF neg
             THEN IF acc < (I32Min + d) \div 10 + (IF (I32Min + d) % 10 = 0 THEN 0 ELSE 1)
                  THEN Err
                  ELSE AccumI32(Tail(ds), acc * 10 - d, neg)
             ELSE IF acc > (I32Max - d) \div 10
                  THEN Err
                  ELSE AccumI32(Tail(ds), acc * 10 + d, neg)

\* str::parse::<i32>(): an optional sign, then at least one digit.
ParseI32(s) ==
    IF s = <<>> THEN Err
    ELSE IF Head(s) \in {"+", "-"}
         THEN IF Tail(s) = <<>> THEN Err
              ELSE AccumI32(Tail(s), 0, Head(s) = "-")
         ELSE AccumI32(s, 0, FALSE)

(***************************************************************************)
(* The JSON reader behind serde_json::from_str::<User> and the writer      *)
(* behind serde_json::to_string, on the JSON that occurs here: objects and *)
(* arrays whose values are strings without escapes, integers and null.     *)
(***************************************************************************)

None == [some |-> FALSE]
Some(v) == [some |-> TRUE, val |-> v]

JsonWs == {" ", "\t", "\n", "\r"}
Punct == {"{", "}", "[", "]", ":", ","}
Quote == "\""
NULL_TEXT == <<"n", "u", "l", "l">>
Bad == [t |-> "bad"]

\* A string body may hold no control character and (here) no escape.
StrOk(cs) == \A i \in 1..Len(cs) : cs[i] \notin {"\r", "\n", "\t", "\f", "\\"}

\* A JSON number without fraction or exponent: -? (0 | [1-9][0-9]*).
NumOk(cs) ==
    LET ds == IF cs # <<>> /\ Head(cs) = "-" THEN Tail(cs) ELSE cs
    IN  /\ ds # <<>>
        /\ \A i \in 1..Len(ds) : ds[i] \in Digits
        /\ (Len(ds) > 1 => ds[1] # "0")

RECURSIVE TakeWhile(_, _)
TakeWhile(s, set) ==
    IF s # <<>> /\ Head(s) \in set THEN <<Head(s)>> \o TakeWhile(Tail(s), set)
    ELSE <<>>

\* The tokens of a JSON text; a text that cannot be read ends in Bad.
RECURSIVE Lex(_)
Lex(s) ==
    LET r == SkipWhile(s, JsonWs)
    IN  IF r = <<>> THEN <<>>
        ELSE IF Head(r) \in Punct THEN <<[t |-> Head(r)]>> \o Lex(Tail(r))
        ELSE IF Head(r) = Quote
             THEN LET cs == TakeUntil(Tail(r), {Quote})
                      rest == From(Tail(r), Len(cs) + 1)
                  IN  IF rest = <<>> \/ ~StrOk(cs) THEN <<Bad>>
                      ELSE <<[t |-> "str", v |-> cs]>> \o Lex(Tail(rest))
        ELSE IF Head(r) \in Digits \cup {"-"}
             THEN LET cs == <<Head(r)>> \o TakeWhile(Tail(r), Digits)
                  IN  IF ~NumOk(cs) THEN <<Bad>>
                      ELSE <<[t |-> "int", v |-> cs]>> \o Lex(From(r, Len(cs) + 1))
        ELSE IF StartsWith(r, NULL_TEXT)
             THEN <<[t |-> "null"]>> \o Lex(From(r, Len(NULL_TEXT) + 1))
        ELSE <<Bad>>

KEY_ID == <<"i", "d">>
KEY_NAME == <<"n", "a", "m", "e">>
KEY_EMAIL == <<"e", "m", "a", "i", "l">>

\* The fields of struct User read so far: none.
NoFields == [seen |-> {}, id |-> None, name |-> <<>>, email |-> <<>>]

\* One "key": value member stored into the fields read so far (struct User:
\* id: Option<i32>, name: String, email: String; other keys are ignored, a
\* repeated field is an error).
PutField(acc, key, val) ==
    IF key = KEY_ID
    THEN IF "id" \in acc.seen THEN Err
         ELSE IF val.t = "null"
              THEN Ok([acc EXCEPT !.seen = @ \cup {"id"}, !.id = None])
         ELSE IF val.t = "int" /\ ParseI32(val.v).ok
              THEN Ok([acc EXCEPT !.seen = @ \cup {"id"},
                                  !.id = Some(ParseI32(val.v).val)])
         ELSE Err
    ELSE IF key = KEY_NAME
    THEN IF "name" \in acc.seen \/ val.t # "str" THEN Err
         ELSE Ok([acc EXCEPT !.seen = @ \cup {"name"}, !.name = val.v])
    ELSE IF key = KEY_EMAIL
    THEN IF "email" \in acc.seen \/ val.t # "str" THEN Err
         ELSE Ok([acc EXCEPT !.seen = @ \cup {"email"}, !.email = val.v])
    ELSE Ok(acc)

\* The members of an object from token i on (a key is expected there); the
\* result carries the position after the closing brace.
RECURSIVE Members(_, _, _)
Members(ts, i, acc) ==
    IF i + 3 > Len(ts) THEN Err
    ELSE IF ts[i].t # "str" \/ ts[i + 1].t # ":"
            \/ ts[i + 2].t \notin {"str", "int", "null"} THEN Err
    ELSE LET put == PutField(acc, ts[i].v, ts[i + 2])
         IN  IF ~put.ok THEN Err
             ELSE IF ts[i + 3].t = "}"
                  THEN [ok |-> TRUE, val |-> put.val, next |-> i + 4]
             ELSE IF ts[i + 3].t = "," THEN Members(ts, i + 4, put.val)
             ELSE Err

\* One object from token i on.
ObjectAt(ts, i) ==
    IF i + 1 > Len(ts) \/ ts[i].t # "{" THEN Err
    ELSE IF ts[i + 1].t = "}" THEN [ok |-> TRUE, val |-> NoFields, next |-> i + 2]
    ELSE Members(ts, i + 1, NoFields)

\* The fields read become a User: name and email are required, id defaults
\* to None.
ToUser(f) ==
    IF "name" \notin f.seen \/ "email" \notin f.seen THEN Err
    ELSE Ok([id |-> f.id, name |-> f.name, email |-> f.email])

\* serde_json::from_str::<User>(text): one object and nothing but white
\* space after it.
FromStrUser(text) ==
    LET ts == Lex(text)
        o == ObjectAt(ts, 1)
    IN  IF ts = <<>> \/ ts[Len(ts)].t = "bad" THEN Err
        ELSE IF ~o.ok \/ o.next # Len(ts) + 1 THEN Err
        ELSE ToUser(o.val)

\* The decimal text of an integer, as the JSON writer prints an i32.
DigitChar(d) == <<"0", "1", "2", "3", "4", "5", "6", "7", "8", "9">>[d + 1]

RECURSIVE ItoaNat(_)
ItoaNat(n) ==
    IF n < 10 THEN <<DigitChar(n)>>
    ELSE ItoaNat(n \div 10) \o <<DigitChar(n % 10)>>

Itoa(n) == IF n < 0 THEN <<"-">> \o ItoaNat(0 - n) ELSE ItoaNat(n)

JsonString(cs) == <<Quote>> \o cs \o <<Quote>>

\* serde_json::to_string(&user): the fields in declaration order.
ToStringUser(u) ==
    <<"{">> \o JsonString(KEY_ID) \o <<":">>
        \o (IF u.id.some THEN Itoa(u.id.val) ELSE NULL_TEXT)
    \o <<",">> \o JsonString(KEY_NAME) \o <<":">> \o JsonString(u.name)
    \o <<",">> \o JsonString(KEY_EMAIL) \o <<":">> \o JsonString(u.email)
    \o <<"}">>

RECURSIVE JoinUsers(_)
JoinUsers(us) ==
    IF us = <<>> THEN <<>>
    ELSE IF Len(us) = 1 THEN ToStringUser(us[1])
    ELSE ToStringUser(us[1]) \o <<",">> \o JoinUsers(Tail(us))

\* serde_json::to_string(&users) of a Vec<User>.
ToStringUsers(us) == <<"[">> \o JoinUsers(us) \o <<"]">>

(***************************************************************************)
(* The constants and the text helpers of main.rs.                          *)
(***************************************************************************)

OK_RESPONSE == "HTTP/1.1 200 OK\r\nContent-Type: application/json\r\n\r\n"
NOT_FOUND == "HTTP/1.1 404 Not Found\r\n\r\n"
INTERNAL_SERVER_ERROR == "HTTP/1.1 500 Internal Server Error\r\n\r\n"

\* The five prefixes handle_client tests, in its order.
POST_USERS == <<"P", "O", "S", "T", " ", "/", "u", "s", "e", "r", "s">>
GET_USERS_SLASH == <<"G", "E", "T", " ", "/", "u", "s", "e", "r", "s", "/">>
GET_USERS == <<"G", "E", "T", " ", "/", "u", "s", "e", "r", "s">>
PUT_USERS == <<"P", "U", "T", " ", "/", "u", "s", "e", "r", "s">>
DELETE_USERS_SLASH == <<"D", "E", "L", "E", "T", "E", " ", "/", "u", "s", "e", "r", "s", "/">>

\* The response bodies that are fixed texts.
MSG_NOT_FOUND == <<"4", "0", "4", " ", "N", "o", "t", " ", "F", "o", "u", "n", "d">>
MSG_USER_CREATED == <<"u", "s", "e", "r", " ", "c", "r", "e", "a", "t", "e", "d">>
MSG_ERROR_POST == <<"E", "r", "r", "o", "r", " ">>
MSG_ERROR == <<"E", "r", "r", "o", "r">>
MSG_USER_NOT_FOUND == <<"U", "s", "e", "r", " ", "n", "o", "t", " ", "f", "o", "u", "n", "d">>
MSG_USER_UPDATED == <<"U", "s", "e", "r", " ", "u", "p", "d", "a", "t", "e", "d">>
MSG_USER_DELETED == <<"U", "s", "e", "r", " ", "d", "e", "l", "e", "t", "e", "d">>

SLASH == <<"/">>
BLANK_LINE == <<"\r", "\n", "\r", "\n">>

\* get_id: the third part of the request split at "/", then its first word.
get_id(request) == FirstWord(NthOrDefault(Split(request, SLASH), 2))

\* The text get_user_request_body hands to the JSON reader: the last part of
\* the request split at the blank line.
RequestBody(request) == LastOrDefault(Split(request, BLANK_LINE))

get_user_request_body(request) == FromStrUser(RequestBody(request))

\* Mutant of Classify: the read-all arm is tried before the read-one arm.
Classify_ReadAllFirst(r) ==
    IF StartsWith(r, POST_USERS) THEN "post"
    ELSE IF StartsWith(r, GET_USERS) THEN "get_all"
    ELSE IF StartsWith(r, GET_USERS_SLASH) THEN "get"
    ELSE IF StartsWith(r, PUT_USERS) THEN "put"
    ELSE IF StartsWith(r, DELETE_USERS_SLASH) THEN "delete"
    ELSE "not_found"

\* The match of handle_client: the arms are tried in order.
Classify(r) ==
    IF StartsWith(r, POST_USERS) THEN "post"
    ELSE IF StartsWith(r, GET_USERS_SLASH) THEN "get"
    ELSE IF StartsWith(r, GET_USERS) THEN "get_all"
    ELSE IF StartsWith(r, PUT_USERS) THEN "put"
    ELSE IF StartsWith(r, DELETE_USERS_SLASH) THEN "delete"
    ELSE "not_found"

(***************************************************************************)
(* The requests that arrive.  MaxSeq bounds the ids the sequence of the    *)
(* table hands out; requests name the ids 1..MaxSeq+1, so that one id is   *)
(* never stored.                                                           *)
(***************************************************************************)

MaxSeq == 2

RequestIds == 1..(MaxSeq + 1)

HTTP11 == <<" ", "H", "T", "T", "P", "/", "1", ".", "1">>
HTTP2 == <<" ", "H", "T", "T", "P", "/", "2">>

BODY_A == <<"{", "\"", "n", "a", "m", "e", "\"", ":", "\"", "a", "\"", ",", "\"", "e", "m", "a", "i", "l", "\"", ":", "\"", "x", "\"", "}">>
BODY_B == <<"{", "\"", "n", "a", "m", "e", "\"", ":", "\"", "b", "\"", ",", "\"", "e", "m", "a", "i", "l", "\"", ":", "\"", "y", "\"", "}">>
BODY_WITH_ID == <<"{", "\"", "i", "d", "\"", ":", "7", ",", "\"", "n", "a", "m", "e", "\"", ":", "\"", "a", "\"", ",", "\"", "e", "m", "a", "i", "l", "\"", ":", "\"", "x", "\"", "}">>
BODY_NO_EMAIL == <<"{", "\"", "n", "a", "m", "e", "\"", ":", "\"", "a", "\"", "}">>
BODY_JUNK == <<"n", "o", "t", " ", "j", "s", "o", "n">>

WithBody(head, b) == head \o BLANK_LINE \o b

CreateRequests ==
    LET h == POST_USERS \o HTTP11
    IN  { WithBody(h, BODY_A), WithBody(h, BODY_B), WithBody(h, BODY_WITH_ID),
          h, WithBody(h, BODY_NO_EMAIL), WithBody(h, BODY_JUNK),
          WithBody(WithBody(h, BODY_JUNK), BODY_A),
          WithBody(WithBody(h, BODY_A), <<>>) }

ReadRequests ==
    { GET_USERS_SLASH \o Itoa(i) \o HTTP11 : i \in RequestIds }
    \cup { GET_USERS_SLASH, GET_USERS_SLASH \o HTTP11,
           GET_USERS_SLASH \o <<"a", "b", "c">> \o HTTP11,
           GET_USERS_SLASH \o <<"a", "b", "c">>,
           GET_USERS_SLASH \o <<"2", "1", "4", "7", "4", "8", "3", "6", "4", "8">> \o HTTP11,
           GET_USERS_SLASH \o <<" ", "1">>,
           GET_USERS \o HTTP11, GET_USERS \o <<"x">> }

UpdateRequests ==
    { WithBody(PUT_USERS \o SLASH \o Itoa(i) \o HTTP11, b) :
          i \in RequestIds, b \in {BODY_A, BODY_B} }
    \cup { WithBody(PUT_USERS \o HTTP11, BODY_A),
           WithBody(PUT_USERS \o HTTP2, BODY_B),
           WithBody(PUT_USERS \o SLASH \o <<"a", "b", "c">> \o HTTP11, BODY_A),
           WithBody(PUT_USERS \o SLASH \o <<"1">> \o HTTP11, BODY_JUNK),
           PUT_USERS \o SLASH \o <<"1">> \o HTTP11,
           WithBody(WithBody(PUT_USERS \o SLASH \o <<"1">> \o HTTP11, BODY_B), <<>>),
           WithBody(WithBody(PUT_USERS \o SLASH \o <<"1">> \o HTTP11, BODY_JUNK), BODY_B) }

DeleteRequests ==
    { DELETE_USERS_SLASH \o Itoa(i) \o HTTP11 : i \in RequestIds }
    \cup { DELETE_USERS_SLASH \o HTTP11,
           DELETE_USERS_SLASH \o <<"x">> \o HTTP11,
           DELETE_USERS_SLASH \o <<" ", "1">> }

OtherRequests ==
    { <<>>, <<"D", "E", "L", "E", "T", "E", " ", "/", "u", "s", "e", "r", "s">>, <<"P", "A", "T", "C", "H", " ", "/", "u", "s", "e", "r", "s", "/", "1", " ", "H", "T", "T", "P", "/", "1", ".", "1">>, <<"G", "E", "T", " ", "/", " ", "H", "T", "T", "P", "/", "1", ".", "1">>,
      <<"g", "e", "t", " ", "/", "u", "s", "e", "r", "s">> }

Requests ==
    CreateRequests \cup ReadRequests \cup UpdateRequests \cup DeleteRequests
        \cup OtherRequests

\* What handle_client and the text helpers make of one request: the arm of
\* the match, get_id(..).parse::<i32>(), the text handed to the JSON reader
\* and what the reader makes of it.
Envelope(r) ==
    [request |-> r, arm |-> Classify(r), id |-> ParseI32(get_id(r)),
     text |-> RequestBody(r), user |-> get_user_request_body(r)]

\* The requests with what is made of them, computed once.
Envelopes == { Envelope(r) : r \in Requests }

(***************************************************************************)
(* The state: the process, the users table with its id sequence, and what  *)
(* the last turn of the accept loop read, did and answered.                *)
(***************************************************************************)

VARIABLES
    running,     \* the process is alive (no panic has unwound main)
    panic,       \* the unwrap() that panicked: none, statement, write_all
    users,       \* the rows of table users
    last_value,  \* the last value of the sequence behind "id SERIAL"
    ever,        \* history: every id a row has ever had
    deleted,     \* history: the ids whose Delete was answered 200
    request,     \* the request text read in the last turn
    arm,         \* the arm of the loop or of the match that ran
    id,          \* what get_id(..).parse::<i32>() gave, when it was called
    body,        \* the text handed to the JSON reader, when it was called
    storage,     \* what happened at the storage: none, connect_err,
                 \* connected (no statement run), query_ok, query_err
    response     \* what was written to the stream

vars == <<running, panic, users, last_value, ever, deleted, request, arm, id,
          body, storage, response>>

NoResponse == [sent |-> FALSE]
Response(status_line, content) ==
    [sent |-> TRUE, status_line |-> status_line, content |-> content]

\* After main has loaded the environment, set_database has created the
\* (empty) table and the listener is bound.
Init ==
    /\ running = TRUE
    /\ panic = "none"
    /\ users = {}
    /\ last_value = 0
    /\ ever = {}
    /\ deleted = {}
    /\ request = <<>>
    /\ arm = "start"
    /\ id = None
    /\ body = None
    /\ storage = "none"
    /\ response = NoResponse

(***************************************************************************)
(* The five SQL statements on table users (id SERIAL PRIMARY KEY, name,    *)
(* email).                                                                 *)
(***************************************************************************)

\* Mutant of InsertRow: the id is one more than the largest stored id, so
\* that the id of a deleted row is handed out again.
InsertRow_ReuseId(name, email) ==
    [id |-> IF users = {} THEN 1
            ELSE 1 + CHOOSE m \in {u.id : u \in users} :
                         \A u \in users : u.id <= m,
     name |-> name, email |-> email]

\* INSERT INTO users (name, email) VALUES ($1, $2): the id is the next value
\* of the sequence.
InsertRow(name, email) == [id |-> last_value + 1, name |-> name, email |-> email]

\* The primary key refuses a second row with the id.
InsertAllowed(row) == \A u \in users : u.id # row.id

\* SELECT * FROM users WHERE id = $1
SelectById(i) == {u \in users : u.id = i}

\* Mutant of UpdateById: the WHERE clause is missing.
UpdateById_NoWhere(i, name, email) ==
    { [u EXCEPT !.name = name, !.email = email] : u \in users }

\* UPDATE users SET name = $1, email = $2 WHERE id = $3
UpdateById(i, name, email) ==
    { IF u.id = i THEN [u EXCEPT !.name = name, !.email = email] ELSE u :
          u \in users }

\* DELETE FROM users WHERE id = $1
DeleteById(i) == {u \in users : u.id # i}

\* A row read into struct User.
RowUser(row) == [id |-> Some(row.id), name |-> row.name, email |-> row.email]

\* SELECT * FROM users: the rows in an order the storage chooses.
RECURSIVE Orders(_)
Orders(S) ==
    IF S = {} THEN {<<>>}
    ELSE UNION { { <<u>> \o o : o \in Orders(S \ {u}) } : u \in S }

(***************************************************************************)
(* The handlers.  Each gives the outcome of one request on the current     *)
(* table: a (status_line, content) pair with the table after it, or a      *)
(* panic (an unwrap() on a failed statement).  connect and query tell      *)
(* whether Client::connect and the statement succeed.                      *)
(***************************************************************************)

Done(status_line, content, us, lv, st) ==
    [panic |-> FALSE, status_line |-> status_line, content |-> content,
     users |-> us, last_value |-> lv, storage |-> st]

Panic(st) ==
    [panic |-> TRUE, status_line |-> "", content |-> <<>>,
     users |-> users, last_value |-> last_value, storage |-> st]

\* The storage touched by a handler that ran no statement.
NoStatement(connect) == IF connect THEN "connected" ELSE "connect_err"

\* Mutant of handle_post_request: an id supplied in the body is stored.
handle_post_request_ClientId(e, connect, query) ==
    LET user == e.user
    IN  IF user.ok /\ connect
        THEN LET row == [id |-> IF user.val.id.some THEN user.val.id.val
                                ELSE last_value + 1,
                         name |-> user.val.name, email |-> user.val.email]
             IN  IF query /\ InsertAllowed(row)
                 THEN Done(OK_RESPONSE, MSG_USER_CREATED, users \cup {row},
                           IF user.val.id.some THEN last_value ELSE row.id,
                           "query_ok")
                 ELSE Panic("query_err")
        ELSE Done(INTERNAL_SERVER_ERROR, MSG_ERROR_POST, users, last_value,
                  NoStatement(connect))

handle_post_request(e, connect, query) ==
    LET user == e.user
    IN  IF user.ok /\ connect
        THEN LET row == InsertRow(user.val.name, user.val.email)
             IN  IF query /\ InsertAllowed(row)
                 THEN Done(OK_RESPONSE, MSG_USER_CREATED, users \cup {row},
                           row.id, "query_ok")
                 ELSE Panic("query_err")
        ELSE Done(INTERNAL_SERVER_ERROR, MSG_ERROR_POST, users, last_value,
                  NoStatement(connect))

handle_get_request(e, connect, query) ==
    LET i == e.id
    IN  IF i.ok /\ connect
        THEN LET rows == SelectById(i.val)
             IN  IF query /\ Cardinality(rows) = 1
                 THEN Done(OK_RESPONSE,
                           ToStringUser(RowUser(CHOOSE u \in rows : TRUE)),
                           users, last_value, "query_ok")
                 ELSE Done(NOT_FOUND, MSG_USER_NOT_FOUND, users, last_value,
                           IF query THEN "query_ok" ELSE "query_err")
        ELSE Done(INTERNAL_SERVER_ERROR, MSG_ERROR, users, last_value,
                  NoStatement(connect))

handle_get_all_request(e, connect, query, order) ==
    IF connect
    THEN IF query
         THEN Done(OK_RESPONSE,
                   ToStringUsers([k \in 1..Len(order) |-> RowUser(order[k])]),
                   users, last_value, "query_ok")
         ELSE Panic("query_err")
    ELSE Done(INTERNAL_SERVER_ERROR, MSG_ERROR, users, last_value, "connect_err")

handle_put_request(e, connect, query) ==
    LET i == e.id
        user == e.user
    IN  IF i.ok /\ user.ok /\ connect
        THEN IF query
             THEN Done(OK_RESPONSE, MSG_USER_UPDATED,
                       UpdateById(i.val, user.val.name, user.val.email),
                       last_value, "query_ok")
             ELSE Panic("query_err")
        ELSE Done(INTERNAL_SERVER_ERROR, MSG_ERROR, users, last_value,
                  NoStatement(connect))

handle_delete_request(e, connect, query) ==
    LET i == e.id
    IN  IF i.ok /\ connect
        THEN IF query
             THEN LET rows_affected == Cardinality(SelectById(i.val))
                  IN  IF rows_affected = 0
                      THEN Done(NOT_FOUND, MSG_USER_NOT_FOUND, users,
                                last_value, "query_ok")
                      ELSE Done(OK_RESPONSE, MSG_USER_DELETED,
                                DeleteById(i.val), last_value, "query_ok")
             ELSE Panic("query_err")
        ELSE Done(INTERNAL_SERVER_ERROR, MSG_ERROR, users, last_value,
                  NoStatement(connect))

(***************************************************************************)
(* The accept loop of main and handle_client: one action per arm.  A turn  *)
(* reads one request, runs the matching handler and writes the response;   *)
(* a panic in the handler, or in the unwrap() of write_all, ends the       *)
(* process.                                                                *)
(***************************************************************************)

Turn(r, a, i, b, out, write) ==
    /\ running
    /\ request' = r
    /\ arm' = a
    /\ id' = i
    /\ body' = b
    /\ storage' = out.storage
    /\ users' = out.users
    /\ last_value' = out.last_value
    /\ ever' = ever \cup {u.id : u \in out.users}
    /\ deleted' = IF a = "delete" /\ ~out.panic /\ write
                      /\ out.status_line = OK_RESPONSE
                   THEN deleted \cup {i.val.val} ELSE deleted
    /\ running' = (~out.panic /\ write)
    /\ panic' = IF out.panic THEN "statement"
                ELSE IF ~write THEN "write_all" ELSE "none"
    /\ response' = IF ~out.panic /\ write
                   THEN Response(out.status_line, out.content)
                   ELSE NoResponse

\* A turn that reads no request: the error is printed and the loop goes on.
Skip(a) ==
    /\ running
    /\ arm' = a
    /\ request' = <<>>
    /\ id' = None
    /\ body' = None
    /\ storage' = "none"
    /\ response' = NoResponse
    /\ UNCHANGED <<running, panic, users, last_value, ever, deleted>>

\* listener.incoming() yields Err.
AcceptErr == running /\ Skip("accept_err")

\* stream.read fails: nothing is written.
ReadErr == running /\ Skip("read_err")

HandlePost(e, connect, query, write) ==
    /\ e.arm = "post"
    /\ LET out == handle_post_request(e, connect, query)
       IN  /\ out.last_value <= MaxSeq
           /\ Turn(e.request, "post", None, Some(e.text), out, write)

HandleGet(e, connect, query, write) ==
    /\ e.arm = "get"
    /\ Turn(e.request, "get", Some(e.id), None,
            handle_get_request(e, connect, query), write)

HandleGetAll(e, connect, query, write) ==
    /\ e.arm = "get_all"
    /\ \E order \in Orders(users) :
           Turn(e.request, "get_all", None, None,
                handle_get_all_request(e, connect, query, order), write)

HandlePut(e, connect, query, write) ==
    /\ e.arm = "put"
    /\ Turn(e.request, "put", Some(e.id), Some(e.text),
            handle_put_request(e, connect, query), write)

HandleDelete(e, connect, query, write) ==
    /\ e.arm = "delete"
    /\ Turn(e.request, "delete", Some(e.id), None,
            handle_delete_request(e, connect, query), write)

HandleNotFound(e, write) ==
    /\ e.arm = "not_found"
    /\ Turn(e.request, "not_found", None, None,
            Done(NOT_FOUND, MSG_NOT_FOUND, users, last_value, "none"), write)

Next ==
    \/ AcceptErr
    \/ ReadErr
    \/ \E e \in Envelopes, connect \in BOOLEAN, query \in BOOLEAN,
          write \in BOOLEAN :
           \/ HandlePost(e, connect, query, write)
           \/ HandleGet(e, connect, query, write)
           \/ HandleGetAll(e, connect, query, write)
           \/ HandlePut(e, connect, query, write)
           \/ HandleDelete(e, connect, query, write)
           \/ HandleNotFound(e, write)

Spec == Init /\ [][Next]_vars

(***************************************************************************)
(* The notions the properties are stated in.  The body of a request is the *)
(* text after its first blank line (empty without one); its path is the    *)
(* second word of the request line, and the id is the path's segment after *)
(* /users.                                                                 *)
(***************************************************************************)

SpecBody(r) ==
    LET i == Find(r, BLANK_LINE)
    IN  IF i = 0 THEN <<>> ELSE From(r, i + Len(BLANK_LINE))

AfterWord(s) ==
    LET w == SkipWhile(s, WhiteSpace)
    IN  From(w, Len(TakeUntil(w, WhiteSpace)) + 1)

RequestPath(r) == FirstWord(AfterWord(r))

PathSegment(r) == NthOrDefault(Split(RequestPath(r), SLASH), 2)

\* The five prefixes in the stated order, with the operation of each.
Prefixes == <<POST_USERS, GET_USERS_SLASH, GET_USERS, PUT_USERS, DELETE_USERS_SLASH>>
Operations == <<"post", "get", "get_all", "put", "delete">>

FirstMatch(r) ==
    LET ks == {k \in 1..Len(Prefixes) : StartsWith(r, Prefixes[k])}
    IN  IF ks = {} THEN "not_found"
        ELSE Operations[CHOOSE k \in ks : \A j \in ks : k <= j]

NoDigitAfter(r, n) == \A k \in (n + 1)..Len(r) : r[k] \notin Digits

View(r) ==
    [request |-> r,
     body |-> SpecBody(r),
     body_user |-> FromStrUser(SpecBody(r)),
     path_id |-> ParseI32(PathSegment(r)),
     first_match |-> FirstMatch(r),
     bare_read_one |-> StartsWith(r, GET_USERS_SLASH)
                         /\ NoDigitAfter(r, Len(GET_USERS_SLASH))]

\* The view of every request, computed once.
Views == { View(r) : r \in Requests }

ViewOf(r) == CHOOSE v \in Views : v.request = r

Ids(us) == {u.id : u \in us}

Answered(resp, status_line) == resp.sent /\ resp.status_line = status_line

\* The storage served the request: the connection opened and no statement
\* failed.
StorageServed(st) == st \notin {"connect_err", "query_err"}

\* The records of a JSON array of users, read back from a response body.
RECURSIVE DecodeFrom(_, _, _)
DecodeFrom(ts, i, acc) ==
    LET o == ObjectAt(ts, i)
    IN  IF ~o.ok THEN Err
        ELSE IF ~ToUser(o.val).ok \/ o.next > Len(ts) THEN Err
        ELSE IF ts[o.next].t = "]"
             THEN IF o.next = Len(ts)
                  THEN Ok(Append(acc, ToUser(o.val).val)) ELSE Err
        ELSE IF ts[o.next].t = ","
             THEN DecodeFrom(ts, o.next + 1, Append(acc, ToUser(o.val).val))
        ELSE Err

DecodeUsers(text) ==
    LET ts == Lex(text)
    IN  IF Len(ts) < 2 \/ ts[1].t # "[" \/ ts[Len(ts)].t = "bad" THEN Err
        ELSE IF ts[2].t = "]" THEN (IF Len(ts) = 2 THEN Ok(<<>>) ELSE Err)
        ELSE DecodeFrom(ts, 2, <<>>)

(***************************************************************************)
(* The properties.                                                         *)
(***************************************************************************)

\* C1: for an id that no stored record has, with the storage serving the
\* request, ReadOne and Delete of the id are answered 404 and Update of the
\* id with a valid body is answered 200 "User updated".
C1_AbsentId ==
    [][ ( /\ response'.sent
          /\ StorageServed(storage')
          /\ arm' \in {"get", "put", "delete"}
          /\ ViewOf(request').path_id.ok
          /\ ViewOf(request').path_id.val \notin Ids(users) )
        => /\ arm' \in {"get", "delete"}
                => response'.status_line = NOT_FOUND
           /\ (arm' = "put" /\ ViewOf(request').body_user.ok)
                => /\ response'.status_line = OK_RESPONSE
                   /\ response'.content = MSG_USER_UPDATED ]_vars

\* C2: no request ends the process: after every turn of the accept loop the
\* loop is still running.
C2_NeverTerminates == running

\* C3: when the storage fails while a recognized request is served (the
\* connection cannot be opened, or the statement fails), the response written
\* is 500 Internal Server Error.
C3_StorageFailureIs500 ==
    (storage \in {"connect_err", "query_err"} /\ panic # "write_all")
        => Answered(response, INTERNAL_SERVER_ERROR)

\* C4: a successful Create adds exactly one record to the table, with the
\* name and email of a valid body and with the next value of the sequence as
\* id, an id no record has had before, whatever id the body supplies; and a
\* ReadAll answered 200 returns exactly the records of the table, so that
\* after a Create it returns the records before it plus the new one.
C4_CreateThenReadAll ==
    [][ /\ (arm' = "post" /\ Answered(response', OK_RESPONSE))
            => \E row \in users' :
                  /\ row \notin users
                  /\ users' = users \cup {row}
                  /\ row.id \notin ever
                  /\ row.id = last_value + 1
                  /\ last_value' = row.id
                  /\ ViewOf(request').body_user.ok
                        => /\ row.name = ViewOf(request').body_user.val.name
                           /\ row.email = ViewOf(request').body_user.val.email
        /\ (arm' = "get_all" /\ Answered(response', OK_RESPONSE))
            => LET got == DecodeUsers(response'.content)
               IN  /\ users' = users
                   /\ got.ok
                   /\ Len(got.val) = Cardinality(users)
                   /\ {got.val[k] : k \in 1..Len(got.val)}
                         = {RowUser(u) : u \in users} ]_vars

\* C4 witness: a ReadAll has returned a table that holds the record created
\* last, after an earlier id was deleted.
C4_Witness ==
    /\ arm = "get_all"
    /\ Answered(response, OK_RESPONSE)
    /\ deleted # {}
    /\ last_value \in Ids(users)

\* C5: a Create or Update whose body is missing, is not valid JSON or lacks
\* name or email is answered 500 and leaves the table as it was.
C5_MalformedBody ==
    [][ ( /\ arm' \in {"post", "put"}
          /\ response'.sent
          /\ ~ViewOf(request').body_user.ok )
        => /\ response'.status_line = INTERNAL_SERVER_ERROR
           /\ users' = users ]_vars

\* C6: a ReadOne, Update or Delete whose path has no segment after /users,
\* or one that is no 32-bit integer, is answered 500, and no row is read,
\* modified or deleted.
C6_InvalidIdentifier ==
    [][ ( /\ arm' \in {"get", "put", "delete"}
          /\ response'.sent
          /\ ~ViewOf(request').path_id.ok )
        => /\ response'.status_line = INTERNAL_SERVER_ERROR
           /\ users' = users
           /\ storage' \notin {"query_ok", "query_err"} ]_vars

\* C7: once a Delete of an id was answered 200, no later Delete of the id is
\* answered 200, whatever came between; it is answered 404 whenever the
\* storage serves it, and it removes nothing.
C7_DeleteOnce ==
    [][ (arm' = "delete" /\ id'.val.ok /\ id'.val.val \in deleted)
        => /\ ~Answered(response', OK_RESPONSE)
           /\ (response'.sent /\ StorageServed(storage'))
                => response'.status_line = NOT_FOUND
           /\ users' = users ]_vars

\* C7 witness: a Delete of an id deleted before was answered 404 while other
\* records are stored.
C7_Witness ==
    /\ arm = "delete"
    /\ id.val.ok
    /\ id.val.val \in deleted
    /\ users # {}
    /\ Answered(response, NOT_FOUND)

\* C8: the request is handled by the first of the five prefixes, in the
\* stated order, that its text starts with; a request that starts with none
\* is answered 404 "404 Not Found" without the storage being touched; and a
\* request that starts with GET /users/ and has no digit after that slash is
\* handled as ReadOne and answered 500.
C8_PrefixOrder ==
    arm \notin {"start", "accept_err", "read_err"}
    => /\ arm = ViewOf(request).first_match
       /\ arm = "not_found"
            => /\ storage = "none"
               /\ response.sent
                    => /\ response.status_line = NOT_FOUND
                       /\ response.content = MSG_NOT_FOUND
       /\ ViewOf(request).bare_read_one
            => /\ arm = "get"
               /\ response.sent
                    => response.status_line = INTERNAL_SERVER_ERROR

\* C8 witness: GET /users/ with nothing after the slash was answered 500.
C8_Witness ==
    /\ request = GET_USERS_SLASH
    /\ arm = "get"
    /\ Answered(response, INTERNAL_SERVER_ERROR)

\* C9: the text a Create or Update hands to the JSON reader is the text after
\* the first blank line of the request, and the empty text when the request
\* has no blank line.
C9_BodyAfterFirstBlankLine ==
    (arm \in {"post", "put"} /\ body.some)
        => body.val = ViewOf(request).body

\* C10: ReadOne and ReadAll leave the table as it was; an Update answered 200
\* for id i changes the name and email of the record with id i and nothing
\* else, and neither adds nor removes a record; a Delete answered 200 for id
\* i removes the record with id i and nothing else; and the stored records
\* always have ids handed out by the sequence, no two the same.
C10_Frame ==
    [][ /\ arm' \in {"get", "get_all"} => users' = users
        /\ (arm' = "put" /\ Answered(response', OK_RESPONSE))
            => LET i == id'.val.val
               IN  /\ Ids(users') = Ids(users)
                   /\ Cardinality(users') = Cardinality(users)
                   /\ \A u \in users : u.id # i => u \in users'
                   /\ \A u \in users' :
                         u.id = i
                         => /\ u.name = FromStrUser(body'.val).val.name
                            /\ u.email = FromStrUser(body'.val).val.email
        /\ (arm' = "delete" /\ Answered(response', OK_RESPONSE))
            => LET i == id'.val.val
               IN  /\ i \in Ids(users)
                   /\ users' = {u \in users : u.id # i}
        /\ \A u \in users' : u.id \in 1..last_value'
        /\ \A u, v \in users' : u.id = v.id => u = v ]_vars

\* C10 witness: an Update of a stored record was answered 200 while another
\* record is stored.
C10_Witness ==
    /\ arm = "put"
    /\ Answered(response, OK_RESPONSE)
    /\ id.val.val \in Ids(users)
    /\ Cardinality(users) > 1

=============================================================================
